---- MODULE Spec2Model ----
(***************************************************************************)
(* Capacity-allocation engine of the bathhouse rest-room system            *)
(* (src/main.py): the rooms and requests tables, the three mutating        *)
(* handlers api_quick_assign (CheckIn), api_checkout (CheckOut),           *)
(* api_rooms_eta (SetPrivateRoomEta) and the read api_snapshot_immediate   *)
(* (Snapshot), run by concurrent request threads over one SQLite file.     *)
(*                                                                         *)
(* Each handler thread owns a connection.  BEGIN IMMEDIATE takes the       *)
(* store's single write lock; the writes of the transaction are kept in    *)
(* tx[p], unseen by the other connections; COMMIT applies them to the      *)
(* committed store and ROLLBACK drops them.  Reads outside a transaction   *)
(* (Snapshot) are autocommit statements: each one sees the store committed *)
(* at that time.                                                           *)
(***************************************************************************)
EXTENDS Integers, Sequences, FiniteSets, TLC

\* ---------------------------------------------------------------- bounds
\* request threads serving calls at the same time
NProcs == 2
\* requests inserted during a run (on top of the ones already in the store)
MaxNew == 2
\* calendar days the run spans; the store's older requests carry day 0
MaxDay == 2
\* headcounts offered to CheckIn are 0..MaxHead
MaxHead == 5
\* Snapshot calls started during a run
MaxSnap == 1
\* private rooms kept of the ones init_db seeds (the first NPrivate, by id)
NPrivate == 2
\* rooms in a store that init_db finds at startup
MaxStore == 3

\* ------------------------------------------------------- program constants
\* seat capacity of the small hall and of the large hall (init_db)
ReinoCap == 20
KamiCap == 70
\* the private rooms init_db seeds, in id order: their capacities
SeedPrivate == <<4, 4, 4, 2, 4, 6, 4, 4>>
PrivateNames == <<"room1", "room2", "room3", "room5", "room6", "room7", "room8", "room10">>

ReinoName == "reino_no_yu_2F_zashiki"
KamiName == "kami_no_yu_2F_zashiki"

Procs == 1..NProcs
NRooms == NPrivate + 2
RoomIds == 1..NRooms
ReinoId == NPrivate + 1
KamiId == NPrivate + 2

\* SQL NULL, and a non-NULL column value x
NULL == <<>>
Some(x) == <<x>>
\* the eta CheckIn writes: now + 105 minutes
EtaDefault == Some("now+105min")

\* the rows of a table that satisfy a WHERE clause, by id
SelectIds(reqs, Where(_)) == {i \in 1..Len(reqs) : Where(reqs[i])}

RECURSIVE SumOver(_, _)
\* SQL SUM: the sum of val[i] over the selected row ids
SumOver(val, ids) ==
  IF ids = {} THEN 0
  ELSE LET i == CHOOSE x \in ids : TRUE
       IN val[i] + SumOver(val, ids \ {i})

\* COALESCE(x, 0) of a nullable integer column
Coalesce0(x) == IF x = NULL THEN 0 ELSE x[1]

\* ------------------------------------------------------------- init_db
\* the rooms table after the first initialisation: the private rooms, then
\* the two halls, all available, no eta
SeedRooms ==
  [i \in RoomIds |->
     IF i <= NPrivate
     THEN [name |-> PrivateNames[i], capacity |-> SeedPrivate[i], kind |-> "private",
           status |-> "available", eta |-> NULL]
     ELSE IF i = ReinoId
     THEN [name |-> ReinoName, capacity |-> ReinoCap, kind |-> "hall",
           status |-> "available", eta |-> NULL]
     ELSE [name |-> KamiName, capacity |-> KamiCap, kind |-> "hall",
           status |-> "available", eta |-> NULL]]

\* the names of the large hall that init_db renames to KamiName (the name
\* without "zashiki", and the misspelt one)
KamiOld == "kami_no_yu_2F"
KamiTypo == "kami_no_yu_2kai_zashiki"
KamiAlt == {KamiOld, KamiTypo}

\* UPDATE rooms SET name=KamiName WHERE name IN KamiAlt
RenameHalls(rs) ==
  [i \in DOMAIN rs |->
     IF rs[i].name \in KamiAlt THEN [rs[i] EXCEPT !.name = KamiName] ELSE rs[i]]

\* ensure_room: insert the hall unless some room carries the name
ensure_room(rs, name, cap) ==
  IF \E i \in DOMAIN rs : rs[i].name = name THEN rs
  ELSE Append(rs, [name |-> name, capacity |-> cap, kind |-> "hall",
                   status |-> "available", eta |-> NULL])

\* init_db, the rooms part: seed an empty table; otherwise rename, then make
\* sure of the two halls
init_db(rs) ==
  IF Len(rs) = 0 THEN SeedRooms
  ELSE ensure_room(ensure_room(RenameHalls(rs), ReinoName, ReinoCap), KamiName, KamiCap)

\* ---------------------------------------------------------- utilities
\* mutant: the steps of the policy are off by one
seats_needed_strict(headcount) ==
  IF headcount <= 0 THEN [err |-> "InvalidGroupSize", need |-> 0]
  ELSE IF headcount < 2 THEN [err |-> "", need |-> 2]
  ELSE IF headcount < 4 THEN [err |-> "", need |-> 4]
  ELSE [err |-> "GroupTooLarge", need |-> 0]

\* seats_needed_for_group: the seat units of a hall group, or the error
seats_needed_for_group(headcount) ==
  IF headcount <= 0 THEN [err |-> "InvalidGroupSize", need |-> 0]
  ELSE IF headcount <= 2 THEN [err |-> "", need |-> 2]
  ELSE IF headcount <= 4 THEN [err |-> "", need |-> 4]
  ELSE [err |-> "GroupTooLarge", need |-> 0]

\* the in_room requests assigned to a room
ActiveIn(reqs, room_id) ==
  SelectIds(reqs, LAMBDA q : q.room = room_id /\ q.status = "in_room")

\* hall_seats_used: COALESCE(SUM(allocated_seats),0) over the room's in_room rows
hall_seats_used(reqs, room_id) ==
  SumOver([i \in 1..Len(reqs) |-> Coalesce0(reqs[i].alloc)], ActiveIn(reqs, room_id))

\* hall_people_used: COALESCE(SUM(headcount),0) over the room's in_room rows
hall_people_used(reqs, room_id) ==
  SumOver([i \in 1..Len(reqs) |-> reqs[i].headcount], ActiveIn(reqs, room_id))

\* ------------------------------------------------------------- the state
VARIABLES
  rooms,      \* committed rooms table: room id -> row
  requests,   \* committed requests table: sequence of rows, id = index
  today,      \* the local calendar day (today_key)
  lock,       \* holder of the store's write lock, 0 when free
  tx,         \* per thread: the uncommitted writes of its connection
  base,       \* per thread: the committed store when its transaction began
  pc,         \* per thread: position in its handler
  call,       \* per thread: the call it serves (operation and payload)
  loc,        \* per thread: the handler's local variables
  view,       \* per thread: the Snapshot result under construction
  nsnap,      \* Snapshot calls started so far
  last,       \* the response sent by the latest step, if it sent one
  coCount,    \* per request id: CheckOut calls that returned ok for it
  ciCount     \* per day: CheckIn calls that returned ok with that day_key

vars == <<rooms, requests, today, lock, tx, base, pc, call, loc, view,
          nsnap, last, coCount, ciCount>>

Targets == {"private", "reino_hall", "kami_hall"}

\* a group of 4 in a hall, checked in on day 0 with ticket number n
HallGroup(room_id, target, n) ==
  [headcount |-> 4, status |-> "in_room", room |-> room_id, day_key |-> 0,
   seq |-> n, target |-> target, alloc |-> Some(4)]

\* groups already seated when the run starts: the small hall one group short
\* of full, the large hall with room for one more pair
PreReino == (ReinoCap \div 4) - 1
PreKami == KamiCap \div 4
PreTotal == PreReino + PreKami
Preloaded ==
  [n \in 1..PreTotal |->
     IF n <= PreReino THEN HallGroup(ReinoId, "reino_hall", n)
     ELSE HallGroup(KamiId, "kami_hall", n)]

MaxReqId == PreTotal + MaxNew
NumNew(reqs) == Cardinality({i \in 1..Len(reqs) : reqs[i].day_key >= 1})

NoStore == [rooms |-> <<>>, requests |-> <<>>]
\* the writes of a transaction: rows inserted into requests, requests updated,
\* rooms updated (a status of "" leaves the status as it is)
NoWrites == [ins |-> <<>>, req |-> <<>>, room |-> <<>>]
NoCall == [op |-> "none", target |-> "", headcount |-> 0, room_id |-> 0,
           day_key |-> 0, req_id |-> 0, hhmm |-> ""]
NoLoc == [seq |-> 0, room_id |-> 0, kind |-> ""]
NoView == [rows |-> <<>>, halls |-> <<>>,
           summary |-> [reino_remain |-> 0, kami_remain |-> 0]]
NoResp == [call |-> NoCall, code |-> "", seq |-> 0, view |-> NoView]

Init ==
  /\ rooms = SeedRooms
  /\ requests \in {<<>>, Preloaded}
  /\ today = 1
  /\ lock = 0
  /\ tx = [p \in Procs |-> NoWrites]
  /\ base = [p \in Procs |-> NoStore]
  /\ pc = [p \in Procs |-> "idle"]
  /\ call = [p \in Procs |-> NoCall]
  /\ loc = [p \in Procs |-> NoLoc]
  /\ view = [p \in Procs |-> NoView]
  /\ nsnap = 0
  /\ last = NoResp
  /\ coCount = [i \in 1..MaxReqId |-> 0]
  /\ ciCount = [d \in 0..MaxDay |-> IF d = 0 THEN Len(requests) ELSE 0]

\* ------------------------------------------------- transaction plumbing
Store == [rooms |-> rooms, requests |-> requests]

RECURSIVE UpdateRequests(_, _)
\* UPDATE requests SET status=?, allocated_seats=? WHERE id=?, one after another
UpdateRequests(reqs, ups) ==
  IF ups = <<>> THEN reqs
  ELSE LET u == Head(ups)
       IN UpdateRequests(
            IF u.id \in 1..Len(reqs)
            THEN [reqs EXCEPT ![u.id].status = u.status, ![u.id].alloc = u.alloc]
            ELSE reqs,
            Tail(ups))

RECURSIVE UpdateRooms(_, _)
\* UPDATE rooms SET [status=?,] eta_at=? WHERE id=?, one after another
UpdateRooms(rs, ups) ==
  IF ups = <<>> THEN rs
  ELSE LET u == Head(ups)
       IN UpdateRooms(
            IF u.id \in DOMAIN rs
            THEN [rs EXCEPT ![u.id].status = IF u.status = "" THEN @ ELSE u.status,
                            ![u.id].eta = u.eta]
            ELSE rs,
            Tail(ups))

\* the store with the writes of a transaction applied
ApplyWrites(st, w) ==
  [rooms |-> UpdateRooms(st.rooms, w.room),
   requests |-> UpdateRequests(st.requests, w.req) \o w.ins]

\* no response is in flight: the response of a call is handed to the client
\* before any thread takes its next step (handing it over touches nothing the
\* other steps read, so every interleaving is equivalent to one of these)
Quiet == last = NoResp

\* the thread can take the call c: it is free, or it has been handed c and
\* stands before the statement that the step executes
Ready(p, c) ==
  \/ pc[p] = "idle"
  \/ pc[p] \in {"called", "begun"} /\ call[p] = c

\* the same, for a step that comes before the connection is opened
ReadyToOpen(p, c) ==
  \/ pc[p] = "idle"
  \/ pc[p] = "called" /\ call[p] = c

\* mutant: the error path leaves the transaction open
RefuseKeepsLock(p, c, code) ==
  /\ last' = [call |-> c, code |-> code, seq |-> 0, view |-> NoView]
  /\ pc' = [pc EXCEPT ![p] = "idle"]
  /\ call' = [call EXCEPT ![p] = NoCall]
  /\ base' = [base EXCEPT ![p] = NoStore]
  /\ UNCHANGED <<rooms, requests, today, lock, tx, loc, view, nsnap, coCount, ciCount>>

\* raise HTTPException before any write (with con.rollback() and con.close()
\* when the connection is open): the call is answered with an error, the
\* store is as before, and the write lock is released if the thread held it
Refuse(p, c, code) ==
  /\ last' = [call |-> c, code |-> code, seq |-> 0, view |-> NoView]
  /\ lock' = IF lock = p THEN 0 ELSE lock
  /\ pc' = [pc EXCEPT ![p] = "idle"]
  /\ call' = [call EXCEPT ![p] = NoCall]
  /\ base' = [base EXCEPT ![p] = NoStore]
  /\ UNCHANGED <<rooms, requests, today, tx, loc, view, nsnap, coCount, ciCount>>

\* mutant: a plain BEGIN, which takes no lock before the first write
CanBeginDeferred(p) == TRUE

\* BEGIN IMMEDIATE: whether this connection can take the write lock
CanBegin(p) == lock = 0

\* BEGIN IMMEDIATE has succeeded, or succeeds now
Begun(p) == lock = p \/ CanBegin(p)

\* BEGIN IMMEDIATE finds the lock with another connection
Waiting(p) == lock # p /\ ~CanBegin(p)

\* BEGIN IMMEDIATE and the statements up to the first write: the thread holds
\* the write lock and its connection holds the uncommitted writes newtx
Enter(p, c, newtx, newloc, next) ==
  /\ lock' = p
  /\ tx' = [tx EXCEPT ![p] = newtx]
  /\ base' = [base EXCEPT ![p] = Store]
  /\ loc' = [loc EXCEPT ![p] = newloc]
  /\ pc' = [pc EXCEPT ![p] = next]
  /\ call' = [call EXCEPT ![p] = c]
  /\ last' = NoResp
  /\ UNCHANGED <<rooms, requests, today, view, nsnap, coCount, ciCount>>

\* a further statement of the open transaction
Step(p, newtx, next) ==
  /\ tx' = [tx EXCEPT ![p] = newtx]
  /\ pc' = [pc EXCEPT ![p] = next]
  /\ last' = NoResp
  /\ UNCHANGED <<rooms, requests, today, lock, base, call, loc, view, nsnap, coCount, ciCount>>

\* mutant: the error path commits what the transaction wrote so far
RollbackKeepsWrites(p, code) ==
  /\ rooms' = ApplyWrites(Store, tx[p]).rooms
  /\ requests' = ApplyWrites(Store, tx[p]).requests
  /\ lock' = IF lock = p THEN 0 ELSE lock
  /\ tx' = [tx EXCEPT ![p] = NoWrites]
  /\ base' = [base EXCEPT ![p] = NoStore]
  /\ loc' = [loc EXCEPT ![p] = NoLoc]
  /\ pc' = [pc EXCEPT ![p] = "idle"]
  /\ call' = [call EXCEPT ![p] = NoCall]
  /\ last' = [call |-> call[p], code |-> code, seq |-> 0, view |-> NoView]
  /\ UNCHANGED <<today, view, nsnap, coCount, ciCount>>

\* con.rollback(); raise: the uncommitted writes are dropped, the lock released
Rollback(p, code) ==
  /\ lock' = IF lock = p THEN 0 ELSE lock
  /\ tx' = [tx EXCEPT ![p] = NoWrites]
  /\ base' = [base EXCEPT ![p] = NoStore]
  /\ loc' = [loc EXCEPT ![p] = NoLoc]
  /\ pc' = [pc EXCEPT ![p] = "idle"]
  /\ call' = [call EXCEPT ![p] = NoCall]
  /\ last' = [call |-> call[p], code |-> code, seq |-> 0, view |-> NoView]
  /\ UNCHANGED <<rooms, requests, today, view, nsnap, coCount, ciCount>>

\* con.commit(); return: the writes reach the committed store, the lock is released
CommitTx(p, seq) ==
  /\ rooms' = ApplyWrites(Store, tx[p]).rooms
  /\ requests' = ApplyWrites(Store, tx[p]).requests
  /\ lock' = IF lock = p THEN 0 ELSE lock
  /\ tx' = [tx EXCEPT ![p] = NoWrites]
  /\ base' = [base EXCEPT ![p] = NoStore]
  /\ loc' = [loc EXCEPT ![p] = NoLoc]
  /\ pc' = [pc EXCEPT ![p] = "idle"]
  /\ call' = [call EXCEPT ![p] = NoCall]
  /\ last' = [call |-> call[p], code |-> "ok", seq |-> seq, view |-> NoView]
  /\ UNCHANGED <<today, view, nsnap>>

\* ------------------------------------------------------ api_quick_assign
CheckInCall(target, headcount, room_id, day_key) ==
  [op |-> "checkin", target |-> target, headcount |-> headcount,
   room_id |-> room_id, day_key |-> day_key, req_id |-> 0, hhmm |-> ""]

\* the checks before the connection is opened
CheckInPrecheck(c) ==
  IF c.target \notin Targets THEN "BadParameters"
  ELSE IF c.headcount <= 0 THEN "InvalidGroupSize"
  ELSE ""

\* mutant: the MAX is taken over the requests of every day
NextSeqAllDays(reqs, day_key) ==
  LET S == {reqs[i].seq : i \in 1..Len(reqs)}
  IN IF S = {} THEN 1 ELSE (CHOOSE m \in S : \A x \in S : x <= m) + 1

\* SELECT COALESCE(MAX(seq),0)+1 FROM requests WHERE day_key=?
NextSeq(reqs, day_key) ==
  LET S == {reqs[i].seq : i \in SelectIds(reqs, LAMBDA q : q.day_key = day_key)}
  IN IF S = {} THEN 1 ELSE (CHOOSE m \in S : \A x \in S : x <= m) + 1

\* SELECT ... FROM rooms WHERE name=? ... fetchone(): the first such room, 0 if none
RoomByName(rs, name) ==
  LET S == {i \in DOMAIN rs : rs[i].name = name}
  IN IF S = {} THEN 0 ELSE CHOOSE m \in S : \A x \in S : m <= x

HallName(target) == IF target = "reino_hall" THEN ReinoName ELSE KamiName

\* the row of INSERT INTO requests(...) VALUES(?, 'in_room', ?, ?, ?, ?, ?, ...)
NewRequest(headcount, room_id, day_key, seq, target, alloc) ==
  [headcount |-> headcount, status |-> "in_room", room |-> room_id,
   day_key |-> day_key, seq |-> seq, target |-> target, alloc |-> alloc]

\* mutant: only an occupied room is refused
PrivateCheckOccupiedOnly(rs, room_id) ==
  IF room_id = 0 THEN "MissingRoom"
  ELSE IF room_id \notin DOMAIN rs THEN "RoomNotFound"
  ELSE IF rs[room_id].kind # "private" THEN "WrongRoomKind"
  ELSE IF rs[room_id].status = "occupied" THEN "RoomNotAvailable"
  ELSE ""

\* the checks of the private branch: the error raised, or ""
PrivateCheck(rs, room_id) ==
  IF room_id = 0 THEN "MissingRoom"
  ELSE IF room_id \notin DOMAIN rs THEN "RoomNotFound"
  ELSE IF rs[room_id].kind # "private" THEN "WrongRoomKind"
  ELSE IF rs[room_id].status # "available" THEN "RoomNotAvailable"
  ELSE ""

\* mutant: the capacity test forgets the seats the new group needs
HallCheckUsedOnly(rs, reqs, target, headcount) ==
  LET rid == RoomByName(rs, HallName(target))
      sn == seats_needed_for_group(headcount)
  IN IF rid = 0 THEN "RoomNotFound"
     ELSE IF rs[rid].status = "disabled" THEN "HallDisabled"
     ELSE IF sn.err # "" THEN sn.err
     ELSE IF hall_seats_used(reqs, rid) > rs[rid].capacity
     THEN "CapacityExceeded"
     ELSE ""

\* mutant: a group that fills the hall exactly is refused
HallCheckStrict(rs, reqs, target, headcount) ==
  LET rid == RoomByName(rs, HallName(target))
      sn == seats_needed_for_group(headcount)
  IN IF rid = 0 THEN "RoomNotFound"
     ELSE IF rs[rid].status = "disabled" THEN "HallDisabled"
     ELSE IF sn.err # "" THEN sn.err
     ELSE IF hall_seats_used(reqs, rid) + sn.need >= rs[rid].capacity
     THEN "CapacityExceeded"
     ELSE ""

\* mutant: the seat-size policy is applied before the hall's status is looked at
HallCheckPolicyFirst(rs, reqs, target, headcount) ==
  LET rid == RoomByName(rs, HallName(target))
      sn == seats_needed_for_group(headcount)
  IN IF rid = 0 THEN "RoomNotFound"
     ELSE IF sn.err # "" THEN sn.err
     ELSE IF rs[rid].status = "disabled" THEN "HallDisabled"
     ELSE IF hall_seats_used(reqs, rid) + sn.need > rs[rid].capacity
     THEN "CapacityExceeded"
     ELSE ""

\* the checks of the hall branch: the error raised, or ""
HallCheck(rs, reqs, target, headcount) ==
  LET rid == RoomByName(rs, HallName(target))
      sn == seats_needed_for_group(headcount)
  IN IF rid = 0 THEN "RoomNotFound"
     ELSE IF rs[rid].status = "disabled" THEN "HallDisabled"
     ELSE IF sn.err # "" THEN sn.err
     ELSE IF hall_seats_used(reqs, rid) + sn.need > rs[rid].capacity
     THEN "CapacityExceeded"
     ELSE ""

\* the error a CheckIn finds in the store it reads, or ""
CheckInCheck(st, c) ==
  IF c.target = "private" THEN PrivateCheck(st.rooms, c.room_id)
  ELSE HallCheck(st.rooms, st.requests, c.target, c.headcount)

\* mutant: every hall target is looked up under the small hall's name
CheckInRoomFirstHall(st, c) ==
  IF c.target = "private" THEN c.room_id ELSE RoomByName(st.rooms, ReinoName)

\* the room a CheckIn assigns
CheckInRoom(st, c) ==
  IF c.target = "private" THEN c.room_id ELSE RoomByName(st.rooms, HallName(c.target))

\* allocated_seats of the request a CheckIn inserts
CheckInAlloc(c) ==
  IF c.target = "private" THEN NULL ELSE Some(seats_needed_for_group(c.headcount).need)

\* a call that fails the checks made before the connection is opened
CheckInReject(p, c) ==
  /\ Quiet
  /\ ReadyToOpen(p, c)
  /\ CheckInPrecheck(c) # ""
  /\ Refuse(p, c, CheckInPrecheck(c))

\* BEGIN IMMEDIATE, then a check of the room or hall fails: rollback, error
CheckInRefuse(p, c) ==
  /\ Quiet
  /\ Ready(p, c)
  /\ CheckInPrecheck(c) = ""
  /\ Begun(p)
  /\ CheckInCheck(Store, c) # ""
  /\ Refuse(p, c, CheckInCheck(Store, c))

\* BEGIN IMMEDIATE, the sequence number, the checks, and the INSERT
CheckInEnter(p, c) ==
  /\ Quiet
  /\ Ready(p, c)
  /\ CheckInPrecheck(c) = ""
  /\ Begun(p)
  /\ CheckInCheck(Store, c) = ""
  /\ NumNew(requests) < MaxNew
  /\ LET seq == NextSeq(requests, c.day_key)
         rid == CheckInRoom(Store, c)
     IN Enter(p, c,
              [NoWrites EXCEPT !.ins =
                 <<NewRequest(c.headcount, rid, c.day_key, seq, c.target,
                              CheckInAlloc(c))>>],
              [seq |-> seq, room_id |-> rid, kind |-> rooms[rid].kind],
              IF c.target = "private" THEN "ci_upd" ELSE "ci_commit")

\* UPDATE rooms SET status='occupied', eta_at=now+105min WHERE id=?
CheckInUpdate(p) ==
  /\ Quiet
  /\ pc[p] = "ci_upd"
  /\ Step(p,
          [tx[p] EXCEPT !.room =
             Append(@, [id |-> loc[p].room_id, status |-> "occupied", eta |-> EtaDefault])],
          "ci_commit")

CheckInCommit(p) ==
  /\ Quiet
  /\ pc[p] = "ci_commit"
  /\ CommitTx(p, loc[p].seq)
  /\ ciCount' = [ciCount EXCEPT ![call[p].day_key] = @ + 1]
  /\ UNCHANGED coCount

\* except Exception: a statement of the open transaction fails in the store
\* (after the INSERT, or the COMMIT itself): rollback, 500
CheckInFault(p) ==
  /\ Quiet
  /\ pc[p] \in {"ci_upd", "ci_commit"}
  /\ Rollback(p, "InternalError")

\* BEGIN IMMEDIATE fails: another connection holds the write lock until the
\* busy timeout expires ("database is locked"): rollback, 500
CheckInBusy(p, c) ==
  /\ Quiet
  /\ ReadyToOpen(p, c)
  /\ CheckInPrecheck(c) = ""
  /\ Waiting(p)
  /\ Refuse(p, c, "InternalError")

\* ----------------------------------------------------------- api_checkout
CheckOutCall(req_id) ==
  [op |-> "checkout", target |-> "", headcount |-> 0, room_id |-> 0,
   day_key |-> 0, req_id |-> req_id, hhmm |-> ""]

\* if not req_id: raise HTTPException(400, "bad params")
CheckOutPrecheck(c) == IF c.req_id = 0 THEN "BadParameters" ELSE ""

\* mutant: the SELECT does not ask for status='in_room'
CheckOutFoundAnyStatus(st, req_id) ==
  /\ req_id \in 1..Len(st.requests)
  /\ st.requests[req_id].room \in DOMAIN st.rooms

\* SELECT q.assigned_room_id, r.kind FROM requests q JOIN rooms r ...
\* WHERE q.id=? AND q.status='in_room': whether a row comes back
CheckOutFound(st, req_id) ==
  /\ req_id \in 1..Len(st.requests)
  /\ st.requests[req_id].status = "in_room"
  /\ st.requests[req_id].room \in DOMAIN st.rooms

CheckOutReject(p, c) ==
  /\ Quiet
  /\ ReadyToOpen(p, c)
  /\ CheckOutPrecheck(c) # ""
  /\ Refuse(p, c, CheckOutPrecheck(c))

\* BEGIN IMMEDIATE, no in_room request of that id: rollback, error
CheckOutRefuse(p, c) ==
  /\ Quiet
  /\ Ready(p, c)
  /\ CheckOutPrecheck(c) = ""
  /\ Begun(p)
  /\ ~CheckOutFound(Store, c.req_id)
  /\ Refuse(p, c, "RequestNotFound")

\* mutant: the request is marked canceled instead of completed
CheckOutEnterCancels(p, c) ==
  /\ Quiet
  /\ Ready(p, c)
  /\ CheckOutPrecheck(c) = ""
  /\ Begun(p)
  /\ CheckOutFound(Store, c.req_id)
  /\ LET room_id == requests[c.req_id].room
         kind == rooms[room_id].kind
     IN Enter(p, c,
              [NoWrites EXCEPT !.req =
                 <<[id |-> c.req_id, status |-> "canceled", alloc |-> NULL]>>],
              [seq |-> 0, room_id |-> room_id, kind |-> kind],
              IF kind = "private" THEN "co_upd" ELSE "co_commit")

\* BEGIN IMMEDIATE, the SELECT, and
\* UPDATE requests SET status='completed', allocated_seats=NULL WHERE id=?
CheckOutEnter(p, c) ==
  /\ Quiet
  /\ Ready(p, c)
  /\ CheckOutPrecheck(c) = ""
  /\ Begun(p)
  /\ CheckOutFound(Store, c.req_id)
  /\ LET room_id == requests[c.req_id].room
         kind == rooms[room_id].kind
     IN Enter(p, c,
              [NoWrites EXCEPT !.req =
                 <<[id |-> c.req_id, status |-> "completed", alloc |-> NULL]>>],
              [seq |-> 0, room_id |-> room_id, kind |-> kind],
              IF kind = "private" THEN "co_upd" ELSE "co_commit")

\* mutant: the room is not reset when its request is completed
CheckOutUpdateSkipped(p) ==
  /\ Quiet
  /\ pc[p] = "co_upd"
  /\ Step(p, tx[p], "co_commit")

\* mutant: the room is made available and its eta is left as it was
CheckOutUpdateKeepsEta(p) ==
  /\ Quiet
  /\ pc[p] = "co_upd"
  /\ Step(p,
          [tx[p] EXCEPT !.room =
             Append(@, [id |-> loc[p].room_id, status |-> "available",
                        eta |-> rooms[loc[p].room_id].eta])],
          "co_commit")

\* if kind == 'private': UPDATE rooms SET status='available', eta_at=NULL WHERE id=?
CheckOutUpdate(p) ==
  /\ Quiet
  /\ pc[p] = "co_upd"
  /\ Step(p,
          [tx[p] EXCEPT !.room =
             Append(@, [id |-> loc[p].room_id, status |-> "available", eta |-> NULL])],
          "co_commit")

CheckOutCommit(p) ==
  /\ Quiet
  /\ pc[p] = "co_commit"
  /\ CommitTx(p, 0)
  /\ coCount' = [coCount EXCEPT ![call[p].req_id] = @ + 1]
  /\ UNCHANGED ciCount

CheckOutFault(p) ==
  /\ Quiet
  /\ pc[p] \in {"co_upd", "co_commit"}
  /\ Rollback(p, "InternalError")

CheckOutBusy(p, c) ==
  /\ Quiet
  /\ ReadyToOpen(p, c)
  /\ CheckOutPrecheck(c) = ""
  /\ Waiting(p)
  /\ Refuse(p, c, "InternalError")

\* ---------------------------------------------------------- api_rooms_eta
EtaCall(room_id, hhmm) ==
  [op |-> "eta", target |-> "", headcount |-> 0, room_id |-> room_id,
   day_key |-> 0, req_id |-> 0, hhmm |-> hhmm]

\* the times offered as hhmm: a time of day; "" stands for a malformed value
\* (empty, not five characters, not digits); "25:00" has the HH:MM shape and
\* names no time of day
ValidTimes == {"09:30"}
NoTimes == {"25:00"}

\* if not room_id or not hhmm or len(hhmm)!=5, or hhmm is not HH:MM: 400.
\* now_jst().replace(hour=h, minute=m) raises ValueError for an hour or minute
\* out of range, before the connection is opened and outside any try: 500
EtaPrecheck(c) ==
  IF c.room_id = 0 \/ c.hhmm = "" THEN "BadParameters"
  ELSE IF c.hhmm \in NoTimes THEN "InternalError"
  ELSE ""

\* mutant: the UPDATE has no AND status='occupied'
EtaCheckAnyStatus(rs, room_id) ==
  IF room_id \notin DOMAIN rs THEN "RoomNotFound"
  ELSE IF rs[room_id].kind # "private" THEN "WrongRoomKind"
  ELSE IF Cardinality({i \in DOMAIN rs : i = room_id}) # 1
  THEN "RoomNotOccupied"
  ELSE ""

\* the checks inside the transaction; the last one is the row count of
\* UPDATE rooms SET eta_at=? WHERE id=? AND status='occupied'
EtaCheck(rs, room_id) ==
  IF room_id \notin DOMAIN rs THEN "RoomNotFound"
  ELSE IF rs[room_id].kind # "private" THEN "WrongRoomKind"
  ELSE IF Cardinality({i \in DOMAIN rs : i = room_id /\ rs[i].status = "occupied"}) # 1
  THEN "RoomNotOccupied"
  ELSE ""

EtaReject(p, c) ==
  /\ Quiet
  /\ ReadyToOpen(p, c)
  /\ EtaPrecheck(c) # ""
  /\ Refuse(p, c, EtaPrecheck(c))

EtaRefuse(p, c) ==
  /\ Quiet
  /\ Ready(p, c)
  /\ EtaPrecheck(c) = ""
  /\ Begun(p)
  /\ EtaCheck(rooms, c.room_id) # ""
  /\ Refuse(p, c, EtaCheck(rooms, c.room_id))

\* mutant: setting the eta also marks the room available
EtaEnterFreesRoom(p, c) ==
  /\ Quiet
  /\ Ready(p, c)
  /\ EtaPrecheck(c) = ""
  /\ Begun(p)
  /\ EtaCheck(rooms, c.room_id) = ""
  /\ Enter(p, c,
           [NoWrites EXCEPT !.room =
              <<[id |-> c.room_id, status |-> "available", eta |-> Some(c.hhmm)]>>],
           [seq |-> 0, room_id |-> c.room_id, kind |-> "private"],
           "eta_commit")

\* BEGIN IMMEDIATE, the SELECT, and the UPDATE of eta_at
EtaEnter(p, c) ==
  /\ Quiet
  /\ Ready(p, c)
  /\ EtaPrecheck(c) = ""
  /\ Begun(p)
  /\ EtaCheck(rooms, c.room_id) = ""
  /\ Enter(p, c,
           [NoWrites EXCEPT !.room =
              <<[id |-> c.room_id, status |-> "", eta |-> Some(c.hhmm)]>>],
           [seq |-> 0, room_id |-> c.room_id, kind |-> "private"],
           "eta_commit")

EtaCommit(p) ==
  /\ Quiet
  /\ pc[p] = "eta_commit"
  /\ CommitTx(p, 0)
  /\ UNCHANGED <<coCount, ciCount>>

EtaFault(p) ==
  /\ Quiet
  /\ pc[p] = "eta_commit"
  /\ Rollback(p, "InternalError")

EtaBusy(p, c) ==
  /\ Quiet
  /\ ReadyToOpen(p, c)
  /\ EtaPrecheck(c) = ""
  /\ Waiting(p)
  /\ Refuse(p, c, "InternalError")

\* ------------------------------- fetch_rooms_grouped, api_snapshot_immediate
\* Neither function opens a transaction: each SELECT is a statement of its
\* own and reads the store committed when it runs.
SnapshotCall ==
  [op |-> "snapshot", target |-> "", headcount |-> 0, room_id |-> 0,
   day_key |-> 0, req_id |-> 0, hhmm |-> ""]

\* (SELECT ... FROM requests q WHERE q.assigned_room_id=r.id AND
\* q.status='in_room' LIMIT 1): the first such row in table order, 0 if none
CurrentRequest(reqs, room_id) ==
  LET S == ActiveIn(reqs, room_id)
  IN IF S = {} THEN 0 ELSE CHOOSE m \in S : \A x \in S : m <= x

\* the outer SELECT of fetch_rooms_grouped: one row per room, ORDER BY r.id
RoomRows(rs, reqs) ==
  [i \in DOMAIN rs |->
     [name |-> rs[i].name, capacity |-> rs[i].capacity, kind |-> rs[i].kind,
      status |-> rs[i].status, eta |-> rs[i].eta,
      currentRequestId |-> CurrentRequest(reqs, i),
      currentHeadcount |->
        IF CurrentRequest(reqs, i) = 0 THEN NULL
        ELSE Some(reqs[CurrentRequest(reqs, i)].headcount),
      currentSeq |->
        IF CurrentRequest(reqs, i) = 0 THEN NULL
        ELSE Some(reqs[CurrentRequest(reqs, i)].seq)]]

RECURSIVE ListDesc(_, _)
\* SELECT id, seq, headcount, COALESCE(allocated_seats,0) ... of the given
\* rows, latest first (ORDER BY updated_at DESC: an in_room row was last
\* written when it was inserted)
ListDesc(reqs, ids) ==
  IF ids = {} THEN <<>>
  ELSE LET m == CHOOSE x \in ids : \A y \in ids : y <= x
       IN <<[id |-> m, seq |-> reqs[m].seq, headcount |-> reqs[m].headcount,
             allocated_seats |-> Coalesce0(reqs[m].alloc)]>>
          \o ListDesc(reqs, ids \ {m})

\* the halls of the rows read, in id order, after room_id
HallsAfter(rows, room_id) ==
  {i \in DOMAIN rows : rows[i].kind = "hall" /\ i > room_id}
NextHall(rows, room_id) ==
  LET S == HallsAfter(rows, room_id)
  IN IF S = {} THEN 0 ELSE CHOOSE m \in S : \A x \in S : m <= x

\* the group a room is listed under
GroupOf(row) ==
  IF row.kind = "private" THEN "private"
  ELSE IF row.name = ReinoName THEN "reino_hall" ELSE "kami_hall"

\* a step of a Snapshot call: only the thread's own view and position change
SnapStep(p, newview, room_id, next) ==
  /\ view' = [view EXCEPT ![p] = newview]
  /\ loc' = [loc EXCEPT ![p] = [seq |-> 0, room_id |-> room_id, kind |-> ""]]
  /\ pc' = [pc EXCEPT ![p] = next]
  /\ call' = [call EXCEPT ![p] = SnapshotCall]
  /\ last' = NoResp
  /\ UNCHANGED <<rooms, requests, today, lock, tx, base, coCount, ciCount>>

\* fetch_rooms_grouped: the SELECT over rooms
SnapRows(p) ==
  /\ Quiet
  /\ pc[p] = "idle"
  /\ nsnap < MaxSnap
  /\ nsnap' = nsnap + 1
  /\ LET rows == RoomRows(rooms, requests)
         first == NextHall(rows, 0)
     IN SnapStep(p,
                 [rows |-> rows,
                  halls |-> [h \in HallsAfter(rows, 0) |->
                               [hall_seats |-> 0, hall_people |-> 0, hall_list |-> <<>>]],
                  summary |-> [reino_remain |-> 0, kami_remain |-> 0]],
                 first,
                 IF first = 0 THEN "snap_reino" ELSE "snap_seats")

\* d["hall_seats"] = hall_seats_used(cur, d["id"])
SnapSeats(p) ==
  /\ Quiet
  /\ pc[p] = "snap_seats"
  /\ UNCHANGED nsnap
  /\ SnapStep(p,
              [view[p] EXCEPT !.halls[loc[p].room_id].hall_seats =
                 hall_seats_used(requests, loc[p].room_id)],
              loc[p].room_id, "snap_people")

\* d["hall_people"] = hall_people_used(cur, d["id"])
SnapPeople(p) ==
  /\ Quiet
  /\ pc[p] = "snap_people"
  /\ UNCHANGED nsnap
  /\ SnapStep(p,
              [view[p] EXCEPT !.halls[loc[p].room_id].hall_people =
                 hall_people_used(requests, loc[p].room_id)],
              loc[p].room_id, "snap_list")

\* d["hall_list"] = the hall's in_room requests; then the next hall, if any
SnapList(p) ==
  /\ Quiet
  /\ pc[p] = "snap_list"
  /\ UNCHANGED nsnap
  /\ LET nxt == NextHall(view[p].rows, loc[p].room_id)
     IN SnapStep(p,
                 [view[p] EXCEPT !.halls[loc[p].room_id].hall_list =
                    ListDesc(requests, ActiveIn(requests, loc[p].room_id))],
                 nxt,
                 IF nxt = 0 THEN "snap_reino" ELSE "snap_seats")

\* the remaining seats of a hall: capacity - hall_seats_used, 0 without the hall
Remain(rs, reqs, name) ==
  LET rid == RoomByName(rs, name)
  IN IF rid = 0 THEN 0 ELSE rs[rid].capacity - hall_seats_used(reqs, rid)

\* api_snapshot_immediate: reino_remain
SnapReino(p) ==
  /\ Quiet
  /\ pc[p] = "snap_reino"
  /\ UNCHANGED nsnap
  /\ SnapStep(p,
              [view[p] EXCEPT !.summary.reino_remain = Remain(rooms, requests, ReinoName)],
              0, "snap_kami")

\* api_snapshot_immediate: kami_remain, and the result is returned
SnapKami(p) ==
  /\ Quiet
  /\ pc[p] = "snap_kami"
  /\ last' = [call |-> SnapshotCall, code |-> "ok", seq |-> 0,
              view |-> [view[p] EXCEPT !.summary.kami_remain =
                          Remain(rooms, requests, KamiName)]]
  /\ view' = [view EXCEPT ![p] = NoView]
  /\ loc' = [loc EXCEPT ![p] = NoLoc]
  /\ pc' = [pc EXCEPT ![p] = "idle"]
  /\ call' = [call EXCEPT ![p] = NoCall]
  /\ UNCHANGED <<rooms, requests, today, lock, tx, base, nsnap, coCount, ciCount>>

\* --------------------------------------------------------- environment
\* the response in flight reaches the client
Deliver ==
  /\ ~Quiet
  /\ last' = NoResp
  /\ UNCHANGED <<rooms, requests, today, lock, tx, base, pc, call, loc, view,
                 nsnap, coCount, ciCount>>

\* midnight passes (today_key)
DayTick ==
  /\ Quiet
  /\ today < MaxDay
  /\ today' = today + 1
  /\ last' = NoResp
  /\ UNCHANGED <<rooms, requests, lock, tx, base, pc, call, loc, view, nsnap, coCount, ciCount>>

\* the payloads offered to CheckIn: the private target with no room, each
\* room and an unknown room, for no guest, a pair and the largest group; each
\* hall target for every headcount; an unknown target
CheckInCalls ==
  {CheckInCall("private", h, r, today) : h \in {0, 2, MaxHead}, r \in 0..(NRooms + 1)}
    \cup {CheckInCall(t, h, 0, today) : t \in {"reino_hall", "kami_hall"}, h \in 0..MaxHead}
    \cup {CheckInCall("lobby", 1, 0, today)}

\* the request ids offered to CheckOut: none (0), an id not yet issued, every
\* request of the run, and of the groups seated before it the first of each hall
CheckOutCalls ==
  {CheckOutCall(i) : i \in
     {0, Len(requests) + 1}
       \cup {i \in 1..Len(requests) :
               requests[i].day_key >= 1 \/ i \in {1, PreReino + 1}}}

\* the payloads offered to SetPrivateRoomEta: each room, an unknown room, no
\* room, a malformed time, a time out of range
EtaCalls ==
  {EtaCall(r, "09:30") : r \in 0..(NRooms + 1)}
    \cup {EtaCall(1, ""), EtaCall(1, "25:00")}

\* the handlers when every store statement succeeds and BEGIN IMMEDIATE waits
\* until the lock is free
Next ==
  \/ \E p \in Procs, c \in CheckInCalls : CheckInReject(p, c)
  \/ \E p \in Procs, c \in CheckInCalls : CheckInRefuse(p, c)
  \/ \E p \in Procs, c \in CheckInCalls : CheckInEnter(p, c)
  \/ \E p \in Procs : CheckInUpdate(p)
  \/ \E p \in Procs : CheckInCommit(p)
  \/ \E p \in Procs, c \in CheckOutCalls : CheckOutReject(p, c)
  \/ \E p \in Procs, c \in CheckOutCalls : CheckOutRefuse(p, c)
  \/ \E p \in Procs, c \in CheckOutCalls : CheckOutEnter(p, c)
  \/ \E p \in Procs : CheckOutUpdate(p)
  \/ \E p \in Procs : CheckOutCommit(p)
  \/ \E p \in Procs, c \in EtaCalls : EtaReject(p, c)
  \/ \E p \in Procs, c \in EtaCalls : EtaRefuse(p, c)
  \/ \E p \in Procs, c \in EtaCalls : EtaEnter(p, c)
  \/ \E p \in Procs : EtaCommit(p)
  \/ Deliver

Spec == Init /\ [][Next]_vars

\* the same, where a store statement may fail and a lock wait may time out
NextFault ==
  \/ Next
  \/ \E p \in Procs : CheckInFault(p)
  \/ \E p \in Procs, c \in CheckInCalls : CheckInBusy(p, c)
  \/ \E p \in Procs : CheckOutFault(p)
  \/ \E p \in Procs, c \in CheckOutCalls : CheckOutBusy(p, c)
  \/ \E p \in Procs : EtaFault(p)
  \/ \E p \in Procs, c \in EtaCalls : EtaBusy(p, c)

SpecFault == Init /\ [][NextFault]_vars

\* the groups offered to a hall while a Snapshot is taken
SnapCheckInCalls ==
  {CheckInCall(t, 1, 0, today) : t \in {"reino_hall", "kami_hall"}}

\* Snapshot calls next to hall check-ins and check-outs
NextSnap ==
  \/ \E p \in Procs : SnapRows(p)
  \/ \E p \in Procs : SnapSeats(p)
  \/ \E p \in Procs : SnapPeople(p)
  \/ \E p \in Procs : SnapList(p)
  \/ \E p \in Procs : SnapReino(p)
  \/ \E p \in Procs : SnapKami(p)
  \/ \E p \in Procs, c \in SnapCheckInCalls : CheckInRefuse(p, c)
  \/ \E p \in Procs, c \in SnapCheckInCalls : CheckInEnter(p, c)
  \/ \E p \in Procs : CheckInCommit(p)
  \/ \E p \in Procs, c \in CheckOutCalls : CheckOutRefuse(p, c)
  \/ \E p \in Procs, c \in CheckOutCalls : CheckOutEnter(p, c)
  \/ \E p \in Procs : CheckOutCommit(p)
  \/ Deliver

SpecSnap == Init /\ [][NextSnap]_vars

\* the calls offered across midnight: a pair for a private room, a pair and
\* too large a group for a hall
DayCheckInCalls ==
  {CheckInCall("private", 2, r, today) : r \in 0..NPrivate}
    \cup {CheckInCall(t, h, 0, today) : t \in {"reino_hall", "kami_hall"}, h \in {2, MaxHead}}

\* check-ins and check-outs across midnight, with store faults
NextDays ==
  \/ \E p \in Procs, c \in DayCheckInCalls : CheckInRefuse(p, c)
  \/ \E p \in Procs, c \in DayCheckInCalls : CheckInEnter(p, c)
  \/ \E p \in Procs : CheckInUpdate(p)
  \/ \E p \in Procs : CheckInCommit(p)
  \/ \E p \in Procs : CheckInFault(p)
  \/ \E p \in Procs, c \in DayCheckInCalls : CheckInBusy(p, c)
  \/ \E p \in Procs, c \in CheckOutCalls : CheckOutRefuse(p, c)
  \/ \E p \in Procs, c \in CheckOutCalls : CheckOutEnter(p, c)
  \/ \E p \in Procs : CheckOutUpdate(p)
  \/ \E p \in Procs : CheckOutCommit(p)
  \/ Deliver
  \/ DayTick

SpecDays == Init /\ [][NextDays]_vars

\* the values the rooms table admits for status (its CHECK constraint)
Statuses == <<"available", "occupied", "cleaning", "disabled">>

\* a store whose room statuses the staff have set by hand: variant k gives
\* room i the status after i + k in the cycle of Statuses; a private room
\* nobody is in is never occupied, it stays available
StaffRooms(k) ==
  [i \in RoomIds |->
     LET st == Statuses[((i + k) % 4) + 1]
     IN [SeedRooms[i] EXCEPT !.status =
           IF SeedRooms[i].kind = "private" /\ st = "occupied" THEN "available" ELSE st]]

InitStaff ==
  /\ rooms \in {StaffRooms(k) : k \in 1..4}
  /\ requests = Preloaded
  /\ today = 1
  /\ lock = 0
  /\ tx = [p \in Procs |-> NoWrites]
  /\ base = [p \in Procs |-> NoStore]
  /\ pc = [p \in Procs |-> "idle"]
  /\ call = [p \in Procs |-> NoCall]
  /\ loc = [p \in Procs |-> NoLoc]
  /\ view = [p \in Procs |-> NoView]
  /\ nsnap = 0
  /\ last = NoResp
  /\ coCount = [i \in 1..MaxReqId |-> 0]
  /\ ciCount = [d \in 0..MaxDay |-> IF d = 0 THEN Len(requests) ELSE 0]

\* the payloads offered to CheckIn in such a store: a pair for the private
\* target with no room, each room and an unknown room; each hall target for
\* no guest, a pair, four and the largest group
StaffCheckInCalls ==
  {CheckInCall("private", 2, r, today) : r \in 0..(NRooms + 1)}
    \cup {CheckInCall(t, h, 0, today) :
            t \in {"reino_hall", "kami_hall"}, h \in {0, 2, 4, MaxHead}}

\* the handlers, every store statement succeeding, over a store with statuses
\* set by hand
NextStaff ==
  \/ \E p \in Procs, c \in StaffCheckInCalls : CheckInReject(p, c)
  \/ \E p \in Procs, c \in StaffCheckInCalls : CheckInRefuse(p, c)
  \/ \E p \in Procs, c \in StaffCheckInCalls : CheckInEnter(p, c)
  \/ \E p \in Procs : CheckInUpdate(p)
  \/ \E p \in Procs : CheckInCommit(p)
  \/ \E p \in Procs, c \in CheckOutCalls : CheckOutReject(p, c)
  \/ \E p \in Procs, c \in CheckOutCalls : CheckOutRefuse(p, c)
  \/ \E p \in Procs, c \in CheckOutCalls : CheckOutEnter(p, c)
  \/ \E p \in Procs : CheckOutUpdate(p)
  \/ \E p \in Procs : CheckOutCommit(p)
  \/ \E p \in Procs, c \in EtaCalls : EtaReject(p, c)
  \/ \E p \in Procs, c \in EtaCalls : EtaRefuse(p, c)
  \/ \E p \in Procs, c \in EtaCalls : EtaEnter(p, c)
  \/ \E p \in Procs : EtaCommit(p)
  \/ Deliver

SpecStaff == InitStaff /\ [][NextStaff]_vars

\* the same handlers while the days pass
NextTime ==
  \/ NextStaff
  \/ DayTick

SpecTime == InitStaff /\ [][NextTime]_vars

\* a row of an existing rooms table, by its name
StoredRoom(name) ==
  IF name = ReinoName
  THEN [name |-> name, capacity |-> ReinoCap, kind |-> "hall",
        status |-> "available", eta |-> NULL]
  ELSE IF name \in {KamiName} \cup KamiAlt
  THEN [name |-> name, capacity |-> KamiCap, kind |-> "hall",
        status |-> "available", eta |-> NULL]
  ELSE [name |-> name, capacity |-> 4, kind |-> "private",
        status |-> "available", eta |-> NULL]

StoredNames == {PrivateNames[1], PrivateNames[2], ReinoName, KamiName} \cup KamiAlt

\* the rooms tables init_db may find at startup: one to MaxStore rooms, no
\* two of the same name; no request, no call in progress
InitSeed ==
  /\ rooms \in UNION {{[i \in 1..n |-> StoredRoom(f[i])] :
                         f \in {g \in [1..n -> StoredNames] :
                                  \A i, j \in 1..n : i # j => g[i] # g[j]}} :
                      n \in 1..MaxStore}
  /\ requests = <<>>
  /\ today = 1
  /\ lock = 0
  /\ tx = [p \in Procs |-> NoWrites]
  /\ base = [p \in Procs |-> NoStore]
  /\ pc = [p \in Procs |-> "idle"]
  /\ call = [p \in Procs |-> NoCall]
  /\ loc = [p \in Procs |-> NoLoc]
  /\ view = [p \in Procs |-> NoView]
  /\ nsnap = 0
  /\ last = NoResp
  /\ coCount = [i \in 1..MaxReqId |-> 0]
  /\ ciCount = [d \in 0..MaxDay |-> 0]

\* the program starts: init_db() runs on the store it finds
ReSeed ==
  /\ rooms' = init_db(rooms)
  /\ UNCHANGED <<requests, today, lock, tx, base, pc, call, loc, view, nsnap,
                 last, coCount, ciCount>>

SpecSeed == InitSeed /\ [][ReSeed]_vars

\* ---------------------------------------------- calls handed to the threads
\* the checks a handler makes before it opens its connection
Precheck(c) ==
  IF c.op = "checkin" THEN CheckInPrecheck(c)
  ELSE IF c.op = "checkout" THEN CheckOutPrecheck(c)
  ELSE EtaPrecheck(c)

\* CheckIn calls handed to a thread and not yet answered
PendingCheckIns == {q \in Procs : pc[q] # "idle" /\ call[q].op = "checkin"}

\* the server hands the call c to a free request thread (no more CheckIns
\* than the run has room for)
Arrive(p, c) ==
  /\ Quiet
  /\ pc[p] = "idle"
  /\ c.op = "checkin" => NumNew(requests) + Cardinality(PendingCheckIns) < MaxNew
  /\ pc' = [pc EXCEPT ![p] = "called"]
  /\ call' = [call EXCEPT ![p] = c]
  /\ last' = NoResp
  /\ UNCHANGED <<rooms, requests, today, lock, tx, base, loc, view, nsnap, coCount, ciCount>>

\* cur.execute("BEGIN IMMEDIATE") returns: the connection holds the write lock
Begin(p) ==
  /\ Quiet
  /\ pc[p] = "called"
  /\ Precheck(call[p]) = ""
  /\ CanBegin(p)
  /\ lock' = p
  /\ base' = [base EXCEPT ![p] = Store]
  /\ pc' = [pc EXCEPT ![p] = "begun"]
  /\ last' = NoResp
  /\ UNCHANGED <<rooms, requests, today, tx, call, loc, view, nsnap, coCount, ciCount>>

\* the thread stands at the given place of the handler of op
At(p, place, op) == pc[p] = place /\ call[p].op = op

\* the calls handed to the threads: CheckIns for a private room and the small
\* hall, CheckOuts, SetPrivateRoomEta
LiveCalls ==
  {CheckInCall("private", 2, r, today) : r \in {0, 1, ReinoId}}
    \cup {CheckInCall("reino_hall", h, 0, today) : h \in {0, 2, MaxHead}}
    \cup CheckOutCalls
    \cup {EtaCall(1, t) : t \in {"09:30", ""}}

\* the next step of thread p in the handler it runs
ThreadStep(p) ==
  \/ Begin(p)
  \/ At(p, "called", "checkin") /\ CheckInReject(p, call[p])
  \/ At(p, "called", "checkin") /\ CheckInBusy(p, call[p])
  \/ At(p, "begun", "checkin") /\ CheckInRefuse(p, call[p])
  \/ At(p, "begun", "checkin") /\ CheckInEnter(p, call[p])
  \/ CheckInUpdate(p)
  \/ CheckInCommit(p)
  \/ CheckInFault(p)
  \/ At(p, "called", "checkout") /\ CheckOutReject(p, call[p])
  \/ At(p, "called", "checkout") /\ CheckOutBusy(p, call[p])
  \/ At(p, "begun", "checkout") /\ CheckOutRefuse(p, call[p])
  \/ At(p, "begun", "checkout") /\ CheckOutEnter(p, call[p])
  \/ CheckOutUpdate(p)
  \/ CheckOutCommit(p)
  \/ CheckOutFault(p)
  \/ At(p, "called", "eta") /\ EtaReject(p, call[p])
  \/ At(p, "called", "eta") /\ EtaBusy(p, call[p])
  \/ At(p, "begun", "eta") /\ EtaRefuse(p, call[p])
  \/ At(p, "begun", "eta") /\ EtaEnter(p, call[p])
  \/ EtaCommit(p)
  \/ EtaFault(p)

NextLive ==
  \/ \E p \in Procs, c \in LiveCalls : Arrive(p, c)
  \/ \E p \in Procs : ThreadStep(p)
  \/ Deliver

\* every thread that has a step to take is scheduled again and again, and a
\* response written is delivered
Fairness ==
  /\ \A p \in Procs : SF_vars(ThreadStep(p))
  /\ WF_vars(Deliver)

SpecLive == Init /\ [][NextLive]_vars /\ Fairness

\* =============================================================== claims
\* the in_room requests of the committed store that are assigned to a room
InRoomAt(r) ==
  {i \in 1..Len(requests) : requests[i].status = "in_room" /\ requests[i].room = r}

RECURSIVE SeatSum(_)
\* the seats the requests of the given ids hold
SeatSum(ids) ==
  IF ids = {} THEN 0
  ELSE LET i == CHOOSE x \in ids : TRUE
       IN (IF requests[i].alloc = NULL THEN 0 ELSE requests[i].alloc[1])
            + SeatSum(ids \ {i})

HallRooms == {r \in DOMAIN rooms : rooms[r].kind = "hall"}
PrivateRooms == {r \in DOMAIN rooms : rooms[r].kind = "private"}
IsHallTarget(c) == c.target \in {"reino_hall", "kami_hall"}

\* C1: in every reachable state, for every hall, the seats held by the
\* in_room requests assigned to it are at most its capacity.
C1_HallCapacity ==
  \A r \in HallRooms : SeatSum(InRoomAt(r)) <= rooms[r].capacity

\* C1 witness: a CheckIn has just filled a hall to its capacity exactly.
C1_Witness ==
  /\ last.call.op = "checkin" /\ last.code = "ok" /\ IsHallTarget(last.call)
  /\ \E r \in HallRooms :
       /\ rooms[r].name = HallName(last.call.target)
       /\ SeatSum(InRoomAt(r)) = rooms[r].capacity

\* C2: in every reachable state, each private room is referenced by at most
\* one in_room request.
C2_PrivateUnique ==
  \A r \in PrivateRooms : Cardinality(InRoomAt(r)) <= 1

\* C2 witness: a second CheckIn on an occupied private room has just been
\* refused, the room still holding its one request.
C2_Witness ==
  /\ last.call.op = "checkin" /\ last.code = "RoomNotAvailable"
  /\ Cardinality(InRoomAt(last.call.room_id)) = 1

\* C3: in every committed state a private room is occupied iff exactly one
\* in_room request references it, and available iff none does.
C3_StatusIffOccupancy ==
  \A r \in PrivateRooms :
    /\ rooms[r].status = "occupied" <=> Cardinality(InRoomAt(r)) = 1
    /\ rooms[r].status = "available" <=> Cardinality(InRoomAt(r)) = 0

\* C3 witness: a CheckOut has just released a private room that a later
\* request had taken, while another private room is occupied.
C3_Witness ==
  /\ last.call.op = "checkout" /\ last.code = "ok"
  /\ \E r \in PrivateRooms :
       rooms[r].status = "available" /\ requests[last.call.req_id].room = r
  /\ \E r \in PrivateRooms : rooms[r].status = "occupied"

StoreNext == [rooms |-> rooms', requests |-> requests']
Responded(op) == last' # NoResp /\ last'.call.op = op

\* C4: a CheckIn that fails with any error leaves rooms and requests exactly
\* as they were: the step that answers it changes neither, and when it had
\* opened a transaction the store is the one the transaction began with.
C4_FailedCheckInNoChange ==
  [][(Responded("checkin") /\ last'.code # "ok") =>
       /\ rooms' = rooms
       /\ requests' = requests
       /\ \A p \in Procs :
            (pc[p] # "idle" /\ pc'[p] = "idle") => StoreNext = base[p]]_vars

\* C4 witness: a CheckIn has failed with an internal error after its INSERT
\* (the write lock is free again, so it was not a lock timeout).
C4_Witness ==
  /\ last.call.op = "checkin" /\ last.code = "InternalError"
  /\ lock = 0

\* C5: at most one CheckOut succeeds per request id; a CheckOut on an id whose
\* request is already completed is answered RequestNotFound and changes
\* neither rooms nor requests.
C5_CheckOutOnce ==
  [][/\ \A i \in DOMAIN coCount : coCount'[i] <= 1
     /\ (/\ Responded("checkout")
         /\ last'.call.req_id \in 1..Len(requests)
         /\ requests[last'.call.req_id].status = "completed")
          => (/\ last'.code = "RequestNotFound"
              /\ rooms' = rooms
              /\ requests' = requests)]_vars

\* C5 witness: a CheckOut of a completed request of a private room has just
\* been refused while the room is occupied by a later request.
C5_Witness ==
  /\ last.call.op = "checkout" /\ last.code = "RequestNotFound"
  /\ last.call.req_id \in 1..Len(requests)
  /\ LET i == last.call.req_id
         r == requests[i].room
     IN /\ requests[i].status = "completed"
        /\ coCount[i] = 1
        /\ r \in PrivateRooms
        /\ rooms[r].status = "occupied"
        /\ \E j \in InRoomAt(r) : j > i

\* C6: no two requests with the same day_key carry the same seq.
C6_SeqUnique ==
  \A i, j \in 1..Len(requests) :
    (i # j /\ requests[i].day_key = requests[j].day_key)
      => requests[i].seq # requests[j].seq

\* C6 witness: two check-ins of one day have committed during the run, and
\* a request of another day carries the seq of each of them.
C6_Witness ==
  /\ last.call.op = "checkin" /\ last.code = "ok" /\ last.seq = 2
  /\ LET new == {i \in 1..Len(requests) : requests[i].day_key = last.call.day_key}
         old == {k \in 1..Len(requests) : requests[k].day_key # last.call.day_key}
     IN /\ Cardinality(new) = 2
        /\ \A i \in new : \E k \in old : requests[k].seq = requests[i].seq

\* C7: the k-th successful CheckIn of a day returns seq = k, which is the seq
\* of the request it inserted; a failed CheckIn uses up no number.
C7_SeqIsRank ==
  [][Responded("checkin") =>
       IF last'.code = "ok"
       THEN /\ last'.seq = ciCount'[last'.call.day_key]
            /\ ciCount'[last'.call.day_key] = ciCount[last'.call.day_key] + 1
            /\ Len(requests') = Len(requests) + 1
            /\ requests'[Len(requests')].seq = last'.seq
            /\ requests'[Len(requests')].day_key = last'.call.day_key
       ELSE /\ ciCount' = ciCount
            /\ requests' = requests]_vars

\* C7 witness: the first CheckIn of the second day has just got number 1,
\* after a CheckIn of the first day and a CheckOut.
C7_Witness ==
  /\ last.call.op = "checkin" /\ last.code = "ok"
  /\ today = 2 /\ last.call.day_key = 2 /\ last.seq = 1
  /\ ciCount[1] >= 1
  /\ \E i \in DOMAIN coCount : coCount[i] = 1

\* what a call returns and leaves when it runs alone on the store st
Serial(st, c) ==
  LET fail(code) == [store |-> st, code |-> code, seq |-> 0]
  IN CASE c.op = "checkin" ->
            IF CheckInPrecheck(c) # "" THEN fail(CheckInPrecheck(c))
            ELSE IF CheckInCheck(st, c) # "" THEN fail(CheckInCheck(st, c))
            ELSE LET rid == CheckInRoom(st, c)
                     seq == NextSeq(st.requests, c.day_key)
                 IN [store |->
                       [rooms |-> IF c.target = "private"
                                  THEN [st.rooms EXCEPT ![rid].status = "occupied",
                                                        ![rid].eta = EtaDefault]
                                  ELSE st.rooms,
                        requests |-> Append(st.requests,
                                            NewRequest(c.headcount, rid, c.day_key, seq,
                                                       c.target, CheckInAlloc(c)))],
                     code |-> "ok", seq |-> seq]
       [] c.op = "checkout" ->
            IF CheckOutPrecheck(c) # "" THEN fail(CheckOutPrecheck(c))
            ELSE IF ~CheckOutFound(st, c.req_id) THEN fail("RequestNotFound")
            ELSE LET rid == st.requests[c.req_id].room
                 IN [store |->
                       [rooms |-> IF st.rooms[rid].kind = "private"
                                  THEN [st.rooms EXCEPT ![rid].status = "available",
                                                        ![rid].eta = NULL]
                                  ELSE st.rooms,
                        requests |-> [st.requests EXCEPT ![c.req_id].status = "completed",
                                                         ![c.req_id].alloc = NULL]],
                     code |-> "ok", seq |-> 0]
       [] OTHER ->
            IF EtaPrecheck(c) # "" THEN fail(EtaPrecheck(c))
            ELSE IF EtaCheck(st.rooms, c.room_id) # "" THEN fail(EtaCheck(st.rooms, c.room_id))
            ELSE [store |-> [rooms |-> [st.rooms EXCEPT ![c.room_id].eta = Some(c.hhmm)],
                             requests |-> st.requests],
                  code |-> "ok", seq |-> 0]

\* C9: mutating operations are serialized.  While a thread is inside its
\* transaction the committed store is the one it validated against; the step
\* that answers a call takes the committed store to the store, and returns the
\* result, of running that call alone on it; no other step changes the store.
\* (A call answered with an internal error, a store fault or a lock timeout,
\* counts as not run: it leaves the store as it is.)
C9_Serializable ==
  [][/\ \A p \in Procs : pc[p] # "idle" /\ call[p].op # "snapshot" => base[p] = Store
     /\ last' = NoResp => StoreNext = Store
     /\ (last' # NoResp /\ last'.call.op \in {"checkin", "checkout", "eta"}) =>
          IF last'.code = "InternalError"
          THEN StoreNext = Store
          ELSE LET r == Serial(Store, last'.call)
               IN /\ last'.code = r.code
                  /\ last'.seq = r.seq
                  /\ StoreNext = r.store]_vars

\* C9 witness: a second CheckIn has committed (ticket 2 of the day) for a
\* private room while the other private room, taken by the first, is occupied.
C9_Witness ==
  /\ last.call.op = "checkin" /\ last.code = "ok" /\ last.seq = 2
  /\ last.call.target = "private"
  /\ \A r \in PrivateRooms : rooms[r].status = "occupied"

\* C10: the seat-size policy is 1,2 -> 2 units, 3,4 -> 4 units, <= 0 ->
\* InvalidGroupSize, >= 5 -> GroupTooLarge; GroupTooLarge is answered to hall
\* targets only, and every hall request admitted has headcount in 1..4 and
\* holds the units the policy gives.
C10_SeatPolicy ==
  /\ \A h \in (0 - 2)..(MaxHead + 2) :
       LET sn == seats_needed_for_group(h)
       IN /\ h <= 0 => sn.err = "InvalidGroupSize"
          /\ h \in {1, 2} => (sn.err = "" /\ sn.need = 2)
          /\ h \in {3, 4} => (sn.err = "" /\ sn.need = 4)
          /\ h >= 5 => sn.err = "GroupTooLarge"
  /\ (last.call.op = "checkin" /\ last.call.target \in Targets) =>
       /\ last.call.headcount <= 0 => last.code = "InvalidGroupSize"
       /\ (IsHallTarget(last.call) /\ last.call.headcount >= 5)
            => last.code = "GroupTooLarge"
       /\ last.call.target = "private" => last.code # "GroupTooLarge"
  /\ \A i \in 1..Len(requests) :
       requests[i].room \in HallRooms =>
         /\ requests[i].headcount \in 1..4
         /\ requests[i].status = "in_room" =>
              requests[i].alloc = Some(IF requests[i].headcount <= 2 THEN 2 ELSE 4)

\* C10 witness: a private room has just been given to a group of five or
\* more, while a hall seats a single guest on two units.
C10_Witness ==
  /\ last.call.op = "checkin" /\ last.code = "ok"
  /\ last.call.target = "private" /\ last.call.headcount >= 5
  /\ \E i \in 1..Len(requests) :
       /\ requests[i].room \in HallRooms
       /\ requests[i].status = "in_room"
       /\ requests[i].headcount = 1
       /\ requests[i].alloc = Some(2)

RECURSIVE ListSeats(_)
ListSeats(l) == IF l = <<>> THEN 0 ELSE Head(l).allocated_seats + ListSeats(Tail(l))
RECURSIVE ListPeople(_)
ListPeople(l) == IF l = <<>> THEN 0 ELSE Head(l).headcount + ListPeople(Tail(l))

\* C8: every Snapshot result shows one committed state: for each hall the
\* seat total and the people total are the sums over the requests listed for
\* that hall, and the summary's remaining seats are capacity minus that seat
\* total.
C8_SnapshotConsistent ==
  (last.call.op = "snapshot") =>
    \A h \in DOMAIN last.view.halls :
      LET d == last.view.halls[h]
          row == last.view.rows[h]
      IN /\ d.hall_seats = ListSeats(d.hall_list)
         /\ d.hall_people = ListPeople(d.hall_list)
         /\ (IF GroupOf(row) = "reino_hall" THEN last.view.summary.reino_remain
             ELSE last.view.summary.kami_remain) = row.capacity - d.hall_seats

\* C11: a CheckIn for the private target with headcount >= 1 succeeds iff a
\* roomId is given, it resolves to a room, the room is private and its status
\* is available; otherwise it fails with the first of MissingRoom,
\* RoomNotFound, WrongRoomKind, RoomNotAvailable that applies (a hall's id:
\* WrongRoomKind; a private room occupied, cleaning or disabled:
\* RoomNotAvailable).
C11_PrivateCheckIn ==
  [][(/\ Responded("checkin")
      /\ last'.call.target = "private"
      /\ last'.call.headcount >= 1) =>
       LET r == last'.call.room_id
           given == r # 0
           found == r \in DOMAIN rooms
           private == found /\ rooms[r].kind = "private"
           available == found /\ rooms[r].status = "available"
       IN /\ last'.code = "ok" <=> (given /\ found /\ private /\ available)
          /\ ~given => last'.code = "MissingRoom"
          /\ (given /\ ~found) => last'.code = "RoomNotFound"
          /\ (found /\ ~private) => last'.code = "WrongRoomKind"
          /\ (private /\ ~available) => last'.code = "RoomNotAvailable"]_vars

\* C11 witness: a CheckIn on a private room that is disabled has just been
\* answered RoomNotAvailable.
C11_Witness ==
  /\ last.call.op = "checkin" /\ last.code = "RoomNotAvailable"
  /\ last.call.room_id \in PrivateRooms
  /\ rooms[last.call.room_id].status = "disabled"

\* the seat units the policy gives a group of 1..4
PolicySeats(h) == IF h <= 2 THEN 2 ELSE 4

RECURSIVE SeatsOf(_, _, _)
\* the seats the in_room requests of a table hold in a room, row by row
SeatsOf(reqs, r, n) ==
  IF n = 0 THEN 0
  ELSE SeatsOf(reqs, r, n - 1)
         + (IF reqs[n].status = "in_room" /\ reqs[n].room = r /\ reqs[n].alloc # NULL
            THEN reqs[n].alloc[1] ELSE 0)

\* the room that carries a hall target's name
HallOf(target) ==
  CHOOSE r \in HallRooms : rooms[r].name = HallName(target)

\* C12: a CheckIn of 1..4 guests to an existing hall that is not disabled
\* succeeds exactly when used + need <= capacity (accepted when equal), fails
\* CapacityExceeded otherwise, and on success inserts one in_room request
\* with allocated_seats = need, so that used grows by exactly need.
C12_HallAdmission ==
  [][(/\ Responded("checkin")
      /\ IsHallTarget(last'.call)
      /\ last'.call.headcount \in 1..4
      /\ \E r \in HallRooms : rooms[r].name = HallName(last'.call.target)
      /\ rooms[HallOf(last'.call.target)].status # "disabled") =>
       LET r == HallOf(last'.call.target)
           used == SeatsOf(requests, r, Len(requests))
           need == PolicySeats(last'.call.headcount)
       IN /\ last'.code = "ok" <=> used + need <= rooms[r].capacity
          /\ last'.code # "ok" =>
               (last'.code = "CapacityExceeded" /\ requests' = requests)
          /\ last'.code = "ok" =>
               /\ Len(requests') = Len(requests) + 1
               /\ SubSeq(requests', 1, Len(requests)) = requests
               /\ requests'[Len(requests')].status = "in_room"
               /\ requests'[Len(requests')].room = r
               /\ requests'[Len(requests')].headcount = last'.call.headcount
               /\ requests'[Len(requests')].alloc = Some(need)
               /\ SeatsOf(requests', r, Len(requests')) = used + need]_vars

\* C12 witness: a hall took a group that filled it exactly, and the next
\* CheckIn to it has just been answered CapacityExceeded.
C12_Witness ==
  /\ last.call.op = "checkin" /\ last.code = "CapacityExceeded"
  /\ LET r == HallOf(last.call.target)
     IN /\ SeatsOf(requests, r, Len(requests)) = rooms[r].capacity
        /\ \E i \in InRoomAt(r) : requests[i].day_key >= 1

\* the error the hall checks give in the order RoomNotFound, HallDisabled,
\* seat-size policy, CapacityExceeded; "ok" when none applies
HallOrder(c) ==
  IF ~\E r \in HallRooms : rooms[r].name = HallName(c.target) THEN "RoomNotFound"
  ELSE IF rooms[HallOf(c.target)].status = "disabled" THEN "HallDisabled"
  ELSE IF c.headcount <= 0 THEN "InvalidGroupSize"
  ELSE IF c.headcount > 4 THEN "GroupTooLarge"
  ELSE IF SeatsOf(requests, HallOf(c.target), Len(requests)) + PolicySeats(c.headcount)
            > rooms[HallOf(c.target)].capacity
  THEN "CapacityExceeded"
  ELSE "ok"

\* C13 as claimed: every hall CheckIn is answered by the first failing check
\* in the order RoomNotFound, HallDisabled, seat-size policy, CapacityExceeded,
\* so a disabled hall answers HallDisabled whatever the headcount.
C13_HallCheckOrder ==
  [][(Responded("checkin") /\ IsHallTarget(last'.call)) =>
       last'.code = HallOrder(last'.call)]_vars

\* C13 amended: a hall CheckIn with headcount <= 0 is answered
\* InvalidGroupSize before the hall is looked at; with headcount >= 1 it is
\* answered by the first failing check in the order RoomNotFound,
\* HallDisabled, GroupTooLarge, CapacityExceeded.  Of the statuses only
\* disabled blocks a hall.
C13_HallCheckOrderValid ==
  [][(Responded("checkin") /\ IsHallTarget(last'.call)) =>
       IF last'.call.headcount <= 0
       THEN last'.code = "InvalidGroupSize"
       ELSE last'.code = HallOrder(last'.call)]_vars

\* C13 witness: a group too large has just been answered HallDisabled by a
\* disabled hall.
C13_Witness ==
  /\ last.call.op = "checkin" /\ last.code = "HallDisabled"
  /\ last.call.headcount > 4
  /\ rooms[HallOf(last.call.target)].status = "disabled"

\* C14: a successful CheckOut sets its request to completed with
\* allocated_seats null; for a private room it also sets the room available
\* with eta null; for a hall the room is untouched and the hall's used seats
\* drop by exactly the seats the request held.  No other request and no other
\* room is modified.
C14_CheckOutEffect ==
  [][(Responded("checkout") /\ last'.code = "ok") =>
       LET i == last'.call.req_id
           r == requests[i].room
       IN /\ requests[i].status = "in_room"
          /\ requests' = [requests EXCEPT ![i].status = "completed", ![i].alloc = NULL]
          /\ IF rooms[r].kind = "private"
             THEN rooms' = [rooms EXCEPT ![r].status = "available", ![r].eta = NULL]
             ELSE /\ rooms' = rooms
                  /\ SeatsOf(requests', r, Len(requests'))
                       = SeatsOf(requests, r, Len(requests)) - Coalesce0(requests[i].alloc)]_vars

\* C14 witness: a group has just checked out of a hall, freeing its four
\* seats, while a private room is occupied with its eta set.
C14_Witness ==
  /\ last.call.op = "checkout" /\ last.code = "ok"
  /\ LET r == requests[last.call.req_id].room
     IN /\ r \in HallRooms
        /\ SeatsOf(requests, r, Len(requests))
             = SeatsOf(Preloaded, r, Len(Preloaded)) - 4
  /\ \E q \in PrivateRooms : rooms[q].status = "occupied" /\ rooms[q].eta # NULL

\* C15: SetPrivateRoomEta with a room id and a time of day succeeds iff the
\* room exists, is private and is occupied; it fails RoomNotFound for an
\* unknown id, WrongRoomKind for a hall, RoomNotOccupied for a private room in
\* any other status.  On success only that room's eta changes, on failure
\* nothing; no room status and no request changes either way.
C15_SetEta ==
  [][(/\ Responded("eta")
      /\ last'.call.room_id # 0
      /\ last'.call.hhmm \in ValidTimes) =>
       LET r == last'.call.room_id
           found == r \in DOMAIN rooms
           private == found /\ rooms[r].kind = "private"
           occupied == found /\ rooms[r].status = "occupied"
       IN /\ last'.code = "ok" <=> (found /\ private /\ occupied)
          /\ ~found => last'.code = "RoomNotFound"
          /\ (found /\ ~private) => last'.code = "WrongRoomKind"
          /\ (private /\ ~occupied) => last'.code = "RoomNotOccupied"
          /\ requests' = requests
          /\ IF last'.code = "ok"
             THEN rooms' = [rooms EXCEPT ![r].eta = Some(last'.call.hhmm)]
             ELSE rooms' = rooms]_vars

\* C15 witness: the eta of an occupied private room has just been replaced,
\* next to a private room that is cleaning or disabled.
C15_Witness ==
  /\ last.call.op = "eta" /\ last.code = "ok"
  /\ rooms[last.call.room_id].status = "occupied"
  /\ rooms[last.call.room_id].eta = Some(last.call.hhmm)
  /\ \E q \in PrivateRooms : rooms[q].status \in {"cleaning", "disabled"}

\* C15 second case: a private room that is cleaning or disabled has just been
\* answered RoomNotOccupied.
C15_Refused ==
  /\ last.call.op = "eta" /\ last.code = "RoomNotOccupied"
  /\ rooms[last.call.room_id].status \in {"cleaning", "disabled"}

\* C16: nothing happens by the passage of time or because of an eta.  A
\* request leaves in_room only by a successful CheckOut of its id, and is
\* never removed; a room's status changes only by a successful CheckIn or
\* CheckOut on that room, so an occupied private room stays occupied until its
\* request is checked out; a hall's status and eta never change; no room's
\* capacity, kind or name changes; a change of day changes nothing in the store.
C16_EtaAdvisory ==
  [][/\ Len(requests') >= Len(requests)
     /\ \A i \in 1..Len(requests) :
          (requests[i].status = "in_room" /\ requests'[i].status # "in_room") =>
            (/\ Responded("checkout") /\ last'.code = "ok"
             /\ last'.call.req_id = i)
     /\ DOMAIN rooms' = DOMAIN rooms
     /\ \A r \in DOMAIN rooms :
          /\ rooms'[r].capacity = rooms[r].capacity
          /\ rooms'[r].kind = rooms[r].kind
          /\ rooms'[r].name = rooms[r].name
          /\ rooms[r].kind = "hall" =>
               (rooms'[r].status = rooms[r].status /\ rooms'[r].eta = rooms[r].eta)
          /\ rooms'[r].status # rooms[r].status =>
               \/ /\ Responded("checkin") /\ last'.code = "ok"
                  /\ last'.call.room_id = r
                  /\ rooms'[r].status = "occupied"
               \/ /\ Responded("checkout") /\ last'.code = "ok"
                  /\ requests[last'.call.req_id].room = r
                  /\ rooms'[r].status = "available"
     /\ today' # today => (rooms' = rooms /\ requests' = requests)]_vars

\* C16 witness: a private room taken the day before, its eta set by hand to
\* a time of that day, is still occupied by the same in_room request.
C16_Witness ==
  /\ today = 2
  /\ \E i \in 1..Len(requests) :
       /\ requests[i].day_key = 1 /\ requests[i].status = "in_room"
       /\ requests[i].room \in PrivateRooms
       /\ rooms[requests[i].room].status = "occupied"
       /\ rooms[requests[i].room].eta \in {Some(t) : t \in ValidTimes}

\* the rooms of a table that carry a name
Named(rs, name) == {i \in DOMAIN rs : rs[i].name = name}

\* C17: a run of init_db on an existing non-empty store leaves no two rooms
\* of one name, exactly one room with each canonical hall name and none with
\* an alternate hall name, and a second run changes nothing further.
C17_ReseedIdempotent ==
  [][Len(rooms) > 0 =>
       /\ \A i, j \in DOMAIN rooms' : i # j => rooms'[i].name # rooms'[j].name
       /\ Cardinality(Named(rooms', ReinoName)) = 1
       /\ Cardinality(Named(rooms', KamiName)) = 1
       /\ \A i \in DOMAIN rooms' : rooms'[i].name \notin KamiAlt
       /\ init_db(rooms') = rooms']_vars

\* C18: a request appears only as the in_room row a successful CheckIn
\* inserts; its status changes only from in_room to completed, in the step
\* that answers ok to a CheckOut of its id; a completed request never changes
\* again; no request is removed; no request is ever canceled.
C18_Lifecycle ==
  [][/\ Len(requests') >= Len(requests)
     /\ Len(requests') <= Len(requests) + 1
     /\ Len(requests') = Len(requests) + 1 =>
          (/\ requests'[Len(requests')].status = "in_room"
           /\ Responded("checkin") /\ last'.code = "ok")
     /\ \A i \in 1..Len(requests) :
          /\ requests'[i].status # requests[i].status =>
               (/\ requests[i].status = "in_room"
                /\ requests'[i].status = "completed"
                /\ Responded("checkout") /\ last'.code = "ok"
                /\ last'.call.req_id = i)
          /\ requests[i].status = "completed" => requests'[i] = requests[i]
     /\ \A i \in 1..Len(requests') : requests'[i].status \in {"in_room", "completed"}]_vars

\* C18 witness: a request of the run was checked in and checked out, and a
\* CheckIn has just created another request.
C18_Witness ==
  /\ last.call.op = "checkin" /\ last.code = "ok"
  /\ requests[Len(requests)].status = "in_room"
  /\ \E i \in 1..(Len(requests) - 1) :
       /\ requests[i].day_key >= 1
       /\ requests[i].status = "completed"
       /\ coCount[i] = 1

\* C19: the write lock is held only by a thread inside its handler, after
\* BEGIN IMMEDIATE and before it answers, so never after a call has returned,
\* on success or on any error path; and under fair scheduling every call
\* handed to a thread is eventually answered.
C19_NoLockLeak ==
  /\ [](lock # 0 => pc[lock] \notin {"idle", "called"})
  /\ \A p \in Procs : (pc[p] # "idle") ~> (pc[p] = "idle")

\* C19 witness: a CheckIn has just been answered with an internal error
\* because the lock wait timed out, while the other thread is inside its
\* transaction and holds the lock.
C19_Witness ==
  /\ last.call.op = "checkin" /\ last.code = "InternalError"
  /\ lock # 0 /\ pc[lock] \notin {"idle", "called", "begun"}

\* C20: the headcount of the in_room request assigned to a private room is
\* at most the room's capacity.
C20_PrivateCapacity ==
  \A i \in 1..Len(requests) :
    (requests[i].status = "in_room" /\ requests[i].room \in PrivateRooms)
      => requests[i].headcount <= rooms[requests[i].room].capacity

\* C21: in every state reachable from the seeded store, a private room's eta
\* is non-null iff its status is occupied.
C21_EtaIffOccupied ==
  \A r \in PrivateRooms : rooms[r].eta # NULL <=> rooms[r].status = "occupied"

\* C21 witness: a CheckOut has just made a private room available with no
\* eta, while another private room is occupied with an eta set by hand.
C21_Witness ==
  /\ last.call.op = "checkout" /\ last.code = "ok"
  /\ LET r == requests[last.call.req_id].room
     IN /\ r \in PrivateRooms
        /\ rooms[r].status = "available" /\ rooms[r].eta = NULL
  /\ \E q \in PrivateRooms :
       /\ rooms[q].status = "occupied"
       /\ rooms[q].eta \in {Some(t) : t \in ValidTimes}

\* C22: every request agrees with its room.  An in_room request for a hall
\* target is assigned to the hall of that name and holds the seats the policy
\* gives its headcount (2 or 4); a request for the private target is assigned
\* to a private room and holds no seats; a completed request holds no seats.
C22_RequestAgreesWithRoom ==
  \A i \in 1..Len(requests) :
    LET q == requests[i]
    IN /\ q.room \in DOMAIN rooms
       /\ (q.status = "in_room" /\ q.target \in {"reino_hall", "kami_hall"}) =>
            /\ rooms[q.room].kind = "hall"
            /\ rooms[q.room].name = HallName(q.target)
            /\ q.headcount \in 1..4
            /\ q.alloc = Some(PolicySeats(q.headcount))
       /\ q.target = "private" =>
            (rooms[q.room].kind = "private" /\ q.alloc = NULL)
       /\ q.target \in Targets
       /\ q.status = "completed" => q.alloc = NULL

\* C22 witness: a group has just checked out of the large hall, its request
\* completed with no seats, while a request of the run holds a private room
\* and another holds two seats of the small hall for a single guest.
C22_Witness ==
  /\ last.call.op = "checkout" /\ last.code = "ok"
  /\ requests[last.call.req_id].target = "kami_hall"
  /\ requests[last.call.req_id].status = "completed"
  /\ requests[last.call.req_id].alloc = NULL
  /\ \E i \in 1..Len(requests) :
       /\ requests[i].day_key >= 1 /\ requests[i].status = "in_room"
       /\ requests[i].target = "private"
  /\ \E i \in 1..Len(requests) :
       /\ requests[i].day_key >= 1 /\ requests[i].status = "in_room"
       /\ requests[i].target = "reino_hall"
       /\ requests[i].headcount = 1 /\ requests[i].alloc = Some(2)

====
